---- MODULE Spec2Model ----
(***************************************************************************)
(* Model of the voter ballot workflow (src/src/components/Candidates.tsx). *)
(* Strings the code inspects character by character (position names,       *)
(* candidate names, the search term) are sequences of one-character        *)
(* strings; fixed user-facing messages are TLA+ strings.  A JavaScript     *)
(* object with ordered keys (the ballot) is a sequence of key/value        *)
(* entries with distinct keys; the selection and abstention maps are       *)
(* functions with a finite domain.                                         *)
(***************************************************************************)
EXTENDS Integers, Sequences, FiniteSets, TLC

\* ------------------------------------------------------------------ bounds
\* How many of the server's ballots (ServerBallots) a request may answer with.
NumBallots == 5
\* How many manual refreshes one behaviour may issue.
MaxRefresh == 2

\* ------------------------------------------------------- JavaScript values
\* The value `undefined` (a missing property, a failed find).
Undefined == "<undefined>"

\* String.prototype.toLowerCase, on the alphabet the model's names use.
LowerChar(ch) ==
  CASE ch = "A" -> "a"
    [] ch = "B" -> "b"
    [] ch = "C" -> "c"
    [] ch = "E" -> "e"
    [] ch = "N" -> "n"
    [] ch = "P" -> "p"
    [] ch = "S" -> "s"
    [] OTHER -> ch

toLowerCase(s) == [i \in 1..Len(s) |-> LowerChar(s[i])]

\* String.prototype.includes: t occurs in s as a contiguous substring.
includes(s, t) ==
  \E i \in 0..(Len(s) - Len(t)) : SubSeq(s, i + 1, i + Len(t)) = t

\* Array.prototype.join over strings.
RECURSIVE join(_, _)
join(list, sep) ==
  IF Len(list) = 0 THEN <<>>
  ELSE IF Len(list) = 1 THEN list[1]
  ELSE list[1] \o sep \o join(Tail(list), sep)

\* { ...prev, [k]: v }
Put(m, k, v) == [x \in (DOMAIN m) \cup {k} |-> IF x = k THEN v ELSE m[x]]

\* delete updated[k]
Delete(m, k) == [x \in (DOMAIN m) \ {k} |-> m[x]]

\* The empty object {} of the selection and abstention maps.
EmptyMap == <<>>

\* ------------------------------------------------------------- the ballot
\* interface Candidate: id, _id and name are the fields the workflow reads.
NoCandidate == [id |-> Undefined, _id |-> Undefined, name |-> <<>>]

Ann  == [id |-> "a", _id |-> Undefined, name |-> <<"A", "n">>]
Bob  == [id |-> "b", _id |-> Undefined, name |-> <<"B", "o">>]
Cy   == [id |-> Undefined, _id |-> "c", name |-> <<"C", "y">>]
Nan  == [id |-> "a", _id |-> "n", name |-> <<"N", "a", "n">>]
Eve  == [id |-> Undefined, _id |-> Undefined, name |-> <<"E", "v">>]

Pres == <<"P", "r">>
Sec  == <<"S", "e">>

\* type CandidatesByPosition: position name -> Candidate[], in key order.
Entry(p, cs) == [position |-> p, candidates |-> cs]

\* The responses the ballot endpoint may give: the empty ballot; a full
\* ballot, one of its candidates carrying only _id; the positions in another
\* order, with two candidates sharing an id; a ballot that lost a position
\* and a candidate; a candidate without any identifier; a position without
\* candidates.
ServerBallots ==
  << <<>>,
     << Entry(Pres, <<Ann, Bob>>), Entry(Sec, <<Cy>>) >>,
     << Entry(Sec, <<Bob>>), Entry(Pres, <<Nan, Ann>>) >>,
     << Entry(Pres, <<Bob>>) >>,
     << Entry(Sec, <<Eve>>) >>,
     << Entry(Sec, <<Ann>>), Entry(Pres, <<>>) >> >>

Ballots == {ServerBallots[i] : i \in 1..NumBallots}

\* What the voter may type into the search box.
SearchTerms == {<<>>, <<"A", "N">>, <<"s">>}

\* Object.keys(response.data)
Keys(obj) == [i \in 1..Len(obj) |-> obj[i].position]

\* position in candidatesByPosition
HasKey(obj, p) == \E i \in 1..Len(obj) : obj[i].position = p

\* candidatesByPosition[position], for a key the object has
Lookup(obj, p) == obj[CHOOSE i \in 1..Len(obj) : obj[i].position = p].candidates

\* An axios outcome: a 2xx response with its data, a 404, any other failure.
Responses ==
  {[kind |-> "ok", data |-> b] : b \in Ballots}
    \cup {[kind |-> "404", data |-> <<>>], [kind |-> "error", data |-> <<>>]}

NoResponse == [kind |-> "none", data |-> <<>>]

\* ---------------------------------------------------------------- messages
Err(text) == [text |-> text, joined |-> <<>>]

NoError          == Err("")
MsgVoterId       == Err("Please enter your Voter ID to view candidates.")
MsgLoadFailed    == Err("Failed to load candidates. Please try again.")
MsgNoCandidates  == Err("No candidates available for your voter group.")
MsgNotFound      ==
  Err("No candidates found for your voter group. Please contact the administrator.")
MsgRefreshFailed == Err("Failed to refresh candidates. Please try again.")
MsgIncomplete(unselected) ==
  [text |-> "Please make a selection for each position: ",
   joined |-> join(unselected, <<",", " ">>)]

\* ------------------------------------------------------------------- state
VARIABLES
  user,                  \* useUser(): an authenticated user is present
  voterId,               \* localStorage holds a "voterId"
  pc,                    \* "constructed" before the mount effects, then "mounted"
  route,                 \* the current route of the router
  navState,              \* the state handed to navigate("/confirm-vote", ...)
  candidatesByPosition, positions, selectedCandidateIds, noneSelected,
  error, unselectedPositions, loading, searchTerm,
  req1,                  \* the request of the first mount effect
  req2,                  \* the request of the second mount effect
  refreshPending,        \* manual refresh requests in flight
  refreshIssued,         \* manual refresh requests issued so far
  lastOp                 \* the operation that produced this state

\* The state of the activity log viewer (ActivityLogManager), a component
\* of its own: the two components never run in the same behaviour.
VARIABLES
  canViewLogs,           \* hasPermission("logs", "view")
  canDeleteLogs,         \* hasPermission("logs", "delete")
  tz,                    \* the browser's offset from UTC, in ticks
  logPc,                 \* "constructed" before the mount effects, then "mounted"
  logs, filteredLogs, logSearchTerm, isLoading, logError, notification,
  filters, showFilters,
  fetchReq,              \* the GET /api/logs request: "none", "pending", "done"
  clearReqs,             \* DELETE /api/logs/clear requests in flight
  clearIssued,           \* DELETE requests issued so far
  timers,                \* pending setTimeout(() => setNotification(null))
  logOp                  \* the operation that produced this state

candVars ==
  <<user, voterId, pc, route, navState, candidatesByPosition, positions,
    selectedCandidateIds, noneSelected, error, unselectedPositions, loading,
    searchTerm, req1, req2, refreshPending, refreshIssued, lastOp>>

logVars ==
  <<canViewLogs, canDeleteLogs, tz, logPc, logs, filteredLogs, logSearchTerm,
    isLoading, logError, notification, filters, showFilters, fetchReq,
    clearReqs, clearIssued, timers, logOp>>

vars == <<candVars, logVars>>

\* The component's React state, as one record.
St ==
  [candidatesByPosition |-> candidatesByPosition,
   positions            |-> positions,
   selectedCandidateIds |-> selectedCandidateIds,
   noneSelected         |-> noneSelected,
   error                |-> error,
   unselectedPositions  |-> unselectedPositions,
   loading              |-> loading,
   searchTerm           |-> searchTerm]

\* The useState initial values.
InitialState ==
  [candidatesByPosition |-> <<>>,
   positions            |-> <<>>,
   selectedCandidateIds |-> EmptyMap,
   noneSelected         |-> EmptyMap,
   error                |-> NoError,
   unselectedPositions  |-> <<>>,
   loading              |-> TRUE,
   searchTerm           |-> <<>>]

NoNavState == [selectedCandidates |-> EmptyMap, noneSelected |-> EmptyMap]

Op(name) ==
  [op |-> name, position |-> <<>>, candidate |-> NoCandidate,
   resp |-> NoResponse, prev |-> "n/a"]

\* selectedCandidateIds[position] !== undefined
HasSelection(s, p) == p \in DOMAIN s.selectedCandidateIds

\* noneSelected[position] is truthy
IsNoneSelected(s, p) == p \in DOMAIN s.noneSelected /\ s.noneSelected[p]

\* ----------------------------------------------------------- mount effects
\* First effect, up to the request: redirect without a user, block without
\* a voter id, otherwise start loading and issue the request.
FirstEffectNavigates == ~user

FirstEffectRequests == user /\ voterId

FirstEffect(s) ==
  IF ~user THEN s
  ELSE IF ~voterId THEN [s EXCEPT !.error = MsgVoterId, !.loading = FALSE]
  ELSE [s EXCEPT !.loading = TRUE]

\* A second effect that requests the ballot without checking the voter id.
SecondEffectRequests_Unchecked == TRUE

\* Second effect, up to the request: it does not look at the user.
SecondEffectRequests == voterId

SecondEffect(s) ==
  IF ~voterId THEN [s EXCEPT !.error = MsgVoterId, !.loading = FALSE]
  ELSE [s EXCEPT !.loading = TRUE]

\* A third effect that lists abstained positions as still open.
UnselectedEffect_IgnoresAbstention(s) ==
  LET Open(p) == ~HasSelection(s, p)
  IN  [s EXCEPT !.unselectedPositions = SelectSeq(s.positions, Open)]

\* Third effect: the positions that have neither a selection nor an abstention.
UnselectedEffect(s) ==
  LET Open(p) == ~HasSelection(s, p) /\ ~IsNoneSelected(s, p)
  IN  [s EXCEPT !.unselectedPositions = SelectSeq(s.positions, Open)]

\* ------------------------------------------------------- request outcomes
\* A first fetch whose catch block swallows the failure.
FirstFetchResolved_SilentFailure(s, resp) ==
  IF resp.kind = "ok"
  THEN [s EXCEPT !.selectedCandidateIds = EmptyMap,
                 !.noneSelected = EmptyMap,
                 !.candidatesByPosition = resp.data,
                 !.positions = Keys(resp.data),
                 !.loading = FALSE]
  ELSE [s EXCEPT !.loading = FALSE]

\* First effect's fetchCandidatesData after the await.
FirstFetchResolved(s, resp) ==
  IF resp.kind = "ok"
  THEN [s EXCEPT !.selectedCandidateIds = EmptyMap,
                 !.noneSelected = EmptyMap,
                 !.candidatesByPosition = resp.data,
                 !.positions = Keys(resp.data),
                 !.loading = FALSE]
  ELSE [s EXCEPT !.error = MsgLoadFailed, !.loading = FALSE]

\* Second effect's fetchCandidatesData after the await.
SecondFetchResolved(s, resp) ==
  IF resp.kind = "ok"
  THEN IF Len(Keys(resp.data)) = 0
       THEN [s EXCEPT !.error = MsgNoCandidates,
                      !.candidatesByPosition = <<>>,
                      !.positions = <<>>,
                      !.loading = FALSE]
       ELSE [s EXCEPT !.candidatesByPosition = resp.data,
                      !.positions = Keys(resp.data),
                      !.error = NoError,
                      !.loading = FALSE]
  ELSE IF resp.kind = "404"
       THEN [s EXCEPT !.error = MsgNotFound, !.loading = FALSE]
       ELSE [s EXCEPT !.error = MsgLoadFailed, !.loading = FALSE]

\* A refresh whose response is dropped when a ballot is already on display.
RefreshResolved_KeepsBallot(s, resp) ==
  IF resp.kind = "ok" /\ Len(s.candidatesByPosition) = 0 /\ Len(Keys(resp.data)) > 0
  THEN [s EXCEPT !.candidatesByPosition = resp.data,
                 !.positions = Keys(resp.data),
                 !.error = NoError,
                 !.loading = FALSE]
  ELSE [s EXCEPT !.loading = FALSE]

\* handleRefresh's then / catch / finally.
RefreshResolved(s, resp) ==
  IF resp.kind = "ok"
  THEN IF Len(Keys(resp.data)) = 0
       THEN [s EXCEPT !.error = MsgNoCandidates,
                      !.candidatesByPosition = <<>>,
                      !.positions = <<>>,
                      !.loading = FALSE]
       ELSE [s EXCEPT !.candidatesByPosition = resp.data,
                      !.positions = Keys(resp.data),
                      !.error = NoError,
                      !.loading = FALSE]
  ELSE [s EXCEPT !.error = MsgRefreshFailed, !.loading = FALSE]

\* ---------------------------------------------------------------- handlers
\* candidate.id || candidate._id || ""
Truthy(v) == v # Undefined /\ v # ""

CandidateId(candidate) ==
  IF Truthy(candidate.id) THEN candidate.id
  ELSE IF Truthy(candidate._id) THEN candidate._id
  ELSE ""

\* handleVote that starts the selection map afresh instead of spreading prev.
handleVote_DropsOthers(s, candidate, position) ==
  [s EXCEPT !.noneSelected = Put(@, position, FALSE),
            !.selectedCandidateIds = Put(EmptyMap, position, CandidateId(candidate)),
            !.error = NoError]

\* handleVote that forgets to clear the abstention flag.
handleVote_KeepsAbstention(s, candidate, position) ==
  [s EXCEPT !.selectedCandidateIds = Put(@, position, CandidateId(candidate)),
            !.error = NoError]

handleVote(s, candidate, position) ==
  [s EXCEPT !.noneSelected = Put(@, position, FALSE),
            !.selectedCandidateIds = Put(@, position, CandidateId(candidate)),
            !.error = NoError]

\* handleNoneSelected that forgets to delete the selected id.
handleNoneSelected_KeepsSelection(s, position) ==
  [s EXCEPT !.noneSelected = Put(@, position, TRUE),
            !.error = NoError]

handleNoneSelected(s, position) ==
  [s EXCEPT !.noneSelected = Put(@, position, TRUE),
            !.selectedCandidateIds = Delete(@, position),
            !.error = NoError]

\* A completeness check that does not count abstentions.
allPositionsSelected_SelectionsOnly(s) ==
  \A i \in 1..Len(s.positions) : HasSelection(s, s.positions[i])

\* positions.every(...)
allPositionsSelected(s) ==
  \A i \in 1..Len(s.positions) :
    HasSelection(s, s.positions[i]) \/ IsNoneSelected(s, s.positions[i])

\* const filteredCandidates = searchTerm ? ... : candidatesByPosition
filteredCandidates(s) ==
  IF Len(s.searchTerm) > 0
  THEN LET term == toLowerCase(s.searchTerm)
           Filtered(e) ==
             LET Match(c) == \/ includes(toLowerCase(c.name), term)
                             \/ includes(toLowerCase(e.position), term)
             IN  Entry(e.position, SelectSeq(e.candidates, Match))
           all == [i \in 1..Len(s.candidatesByPosition) |->
                     Filtered(s.candidatesByPosition[i])]
           NonEmpty(e) == Len(e.candidates) > 0
       IN  SelectSeq(all, NonEmpty)
  ELSE s.candidatesByPosition

\* A find that compares the id the card was selected under (id, else _id).
Find_ByEitherId(list, candidateId) ==
  LET hits == {i \in 1..Len(list) : CandidateId(list[i]) = candidateId}
  IN  IF hits = {} THEN NoCandidate
      ELSE list[CHOOSE i \in hits : \A j \in hits : i <= j]

\* candidates.find((c) => c.id === candidateId); NoCandidate for undefined
Find(list, candidateId) ==
  LET hits == {i \in 1..Len(list) : list[i].id = candidateId}
  IN  IF hits = {} THEN NoCandidate
      ELSE list[CHOOSE i \in hits : \A j \in hits : i <= j]

\* candidatesByPosition[position]?.find(...)
FindIn(obj, p, candidateId) ==
  IF HasKey(obj, p) THEN Find(Lookup(obj, p), candidateId) ELSE NoCandidate

\* A reduce that looks the ids up in the filtered ballot on display.
validSelectedCandidates_Filtered(s) ==
  LET found(p) == FindIn(filteredCandidates(s), p, s.selectedCandidateIds[p])
      kept == {p \in DOMAIN s.selectedCandidateIds : found(p) # NoCandidate}
  IN  [p \in kept |-> found(p)]

\* Object.entries(selectedCandidateIds).reduce(...)
validSelectedCandidates(s) ==
  LET found(p) == FindIn(s.candidatesByPosition, p, s.selectedCandidateIds[p])
      kept == {p \in DOMAIN s.selectedCandidateIds : found(p) # NoCandidate}
  IN  [p \in kept |-> found(p)]

\* The state handed to the confirmation step.
ConfirmPayload(s) ==
  [selectedCandidates |-> validSelectedCandidates(s),
   noneSelected       |-> s.noneSelected]

\* The else branch of handleConfirmVote.
ConfirmRejected(s) ==
  [s EXCEPT !.error = MsgIncomplete(s.unselectedPositions)]

\* handleConfirmVote: whether it navigates, the state it hands over, and the
\* component state it leaves.
ConfirmOutcome(s) ==
  IF allPositionsSelected(s)
  THEN [navigates |-> TRUE, state |-> ConfirmPayload(s), after |-> s]
  ELSE [navigates |-> FALSE, state |-> NoNavState, after |-> ConfirmRejected(s)]

\* ----------------------------------------------------------------- actions
\* Every state update is followed by a render and by the third effect.
Commit(s) ==
  LET t == UnselectedEffect(s)
  IN  /\ candidatesByPosition' = t.candidatesByPosition
      /\ positions' = t.positions
      /\ selectedCandidateIds' = t.selectedCandidateIds
      /\ noneSelected' = t.noneSelected
      /\ error' = t.error
      /\ unselectedPositions' = t.unselectedPositions
      /\ loading' = t.loading
      /\ searchTerm' = t.searchTerm
      /\ UNCHANGED logVars

\* The component is on screen: its state setters still have an effect.
Mounted == pc = "mounted" /\ route = "/candidates"

\* The main view is rendered (neither `return null` nor "Voter ID Required").
MainView == Mounted /\ user /\ voterId

\* What the voter can click: the entries of filteredCandidates, when the
\* ballot is not empty.
Displayed(s) ==
  IF Len(s.candidatesByPosition) > 0 THEN filteredCandidates(s) ELSE <<>>

PrevOf(s, p) ==
  IF HasSelection(s, p) THEN "selected"
  ELSE IF IsNoneSelected(s, p) THEN "abstained"
  ELSE "unselected"

\* ================================================== the activity log viewer
\* Model of ActivityLogManager (src/unnamed/part_001).  Time is counted in
\* ticks since the epoch, in UTC; a day has TicksPerDay of them and the last
\* tick of a day stands for 23:59:59.
TicksPerDay == 4
\* How many DELETE /api/logs/clear requests one behaviour may issue.
MaxClear == 1

\* How many structured filters are set at once.
MaxActiveFilters == 1

\* The instant of tick `tick` of UTC day `day`.
At(day, tick) == day * TicksPerDay + tick

\* The offsets from UTC a browser may run with: west of, at, east of Greenwich.
TimeZones == {-1, 0, 1}

\* interface ActivityLog; `user` is optional.
NoLogUser == [present |-> FALSE, username |-> <<>>, fullName |-> <<>>, role |-> <<>>]

LogUser(username, fullName, role) ==
  [present |-> TRUE, username |-> username, fullName |-> fullName, role |-> role]

LogEntry(id, u, action, entity, details, timestamp) ==
  [_id |-> id, user |-> u, action |-> action, entity |-> entity,
   details |-> details, ipAddress |-> <<"1", ".", "2">>, timestamp |-> timestamp]

AnnAdmin == LogUser(<<"a", "n", "n">>, <<"A", "n", "n">>, <<"A", "d">>)
BoClerk  == LogUser(<<"b", "o">>, <<>>, <<>>)

LogE1 == LogEntry("e1", AnnAdmin, <<"A", "d", "d">>, <<"P", "a", "n">>, <<"o", "k">>,
                  At(0, 1))
LogE2 == LogEntry("e2", BoClerk, <<"A", "d", "d">>, <<"S">>, <<"a", "\"", "n">>,
                  At(1, TicksPerDay - 1))
LogE3 == LogEntry("e3", NoLogUser, <<"C", "u", "t">>, <<"S">>,
                  <<"A", "n", "\n", "\"", "\"">>, At(1, 0))
LogE4 == LogEntry("e4", BoClerk, <<"C", "u", "t">>, <<"P", "a", "n">>, <<>>,
                  At(1, TicksPerDay - 1))

\* What GET /api/logs may return: no entry, or four entries out of order,
\* two of them with the same timestamp.
LogLists == {<<>>, <<LogE1, LogE4, LogE3, LogE2>>}

\* A fetch outcome: an OK response with its JSON, a non-OK status, a rejection.
LogResponses ==
  {[kind |-> "ok", data |-> l] : l \in LogLists}
    \cup {[kind |-> "status", data |-> <<>>], [kind |-> "network", data |-> <<>>]}

\* DELETE /api/logs/clear outcomes.
ClearResponses ==
  {[kind |-> "ok", data |-> <<>>], [kind |-> "status", data |-> <<>>],
   [kind |-> "network", data |-> <<>>]}

NoLogResponse == [kind |-> "none", data |-> <<>>]

\* What the user may type into the log search box.
LogSearchTerms == {<<>>, <<"A", "N">>}

\* The values of the two date inputs: "" or a day, as the one-element
\* sequence of its day number.
DateValues == {<<>>, <<1>>}

FilterNames == {"user", "action", "entity", "fromDate", "toDate"}

\* useState({ user: "", action: "", entity: "", fromDate: "", toDate: "" })
NoFilters == [n \in FilterNames |-> <<>>]

\* null
Null == "<null>"

NoNotification == [type |-> Null, message |-> Null]

\* The component's React state, as one record.
LogSt ==
  [logs         |-> logs,
   filteredLogs |-> filteredLogs,
   searchTerm   |-> logSearchTerm,
   isLoading    |-> isLoading,
   error        |-> logError,
   notification |-> notification,
   filters      |-> filters,
   showFilters  |-> showFilters]

\* The useState initial values.
InitialLogState ==
  [logs         |-> <<>>,
   filteredLogs |-> <<>>,
   searchTerm   |-> <<>>,
   isLoading    |-> FALSE,
   error        |-> Null,
   notification |-> NoNotification,
   filters      |-> NoFilters,
   showFilters  |-> FALSE]

\* What handlePrint writes into the window it opens: whether window.open
\* gave a window, the "Showing n of m logs" line, the rows of the table.
NoDocument == [opened |-> FALSE, showing |-> <<0, 0>>, rows |-> <<>>]

LogOpOf(name) ==
  [op |-> name, asked |-> FALSE, answer |-> FALSE, resp |-> NoLogResponse,
   before |-> <<>>, output |-> <<>>, document |-> NoDocument]

\* The activity log viewer, not rendered: the state the ballot workflow's
\* behaviours leave it in.
LogsParked ==
  /\ canViewLogs = FALSE
  /\ canDeleteLogs = FALSE
  /\ tz = 0
  /\ logPc = "constructed"
  /\ logs = InitialLogState.logs
  /\ filteredLogs = InitialLogState.filteredLogs
  /\ logSearchTerm = InitialLogState.searchTerm
  /\ isLoading = InitialLogState.isLoading
  /\ logError = InitialLogState.error
  /\ notification = InitialLogState.notification
  /\ filters = InitialLogState.filters
  /\ showFilters = InitialLogState.showFilters
  /\ fetchReq = "none"
  /\ clearReqs = <<>>
  /\ clearIssued = 0
  /\ timers = 0
  /\ logOp = LogOpOf("construct")

Init ==
  /\ user \in BOOLEAN
  /\ voterId \in BOOLEAN
  /\ pc = "constructed"
  /\ route = "/candidates"
  /\ navState = NoNavState
  /\ candidatesByPosition = InitialState.candidatesByPosition
  /\ positions = InitialState.positions
  /\ selectedCandidateIds = InitialState.selectedCandidateIds
  /\ noneSelected = InitialState.noneSelected
  /\ error = InitialState.error
  /\ unselectedPositions = InitialState.unselectedPositions
  /\ loading = InitialState.loading
  /\ searchTerm = InitialState.searchTerm
  /\ req1 = "none"
  /\ req2 = "none"
  /\ refreshPending = 0
  /\ refreshIssued = 0
  /\ lastOp = Op("construct")
  /\ LogsParked

\* The three effects of the first commit, in source order.
Mount ==
  /\ pc = "constructed"
  /\ pc' = "mounted"
  /\ route' = IF FirstEffectNavigates THEN "/" ELSE route
  /\ req1' = IF FirstEffectRequests THEN "pending" ELSE "none"
  /\ req2' = IF SecondEffectRequests THEN "pending" ELSE "none"
  /\ Commit(SecondEffect(FirstEffect(St)))
  /\ lastOp' = Op("mount")
  /\ UNCHANGED <<user, voterId, navState, refreshPending, refreshIssued>>

\* The response to the first effect's request arrives.
ResolveFirst(resp) ==
  /\ req1 = "pending"
  /\ req1' = "done"
  /\ IF Mounted
     THEN /\ Commit(FirstFetchResolved(St, resp))
          /\ lastOp' = [Op("resolveFirst") EXCEPT !.resp = resp]
     ELSE /\ Commit(St)
          /\ lastOp' = Op("ignored")
  /\ UNCHANGED <<user, voterId, pc, route, navState, req2, refreshPending,
                 refreshIssued>>

\* The response to the second effect's request arrives.
ResolveSecond(resp) ==
  /\ req2 = "pending"
  /\ req2' = "done"
  /\ IF Mounted
     THEN /\ Commit(SecondFetchResolved(St, resp))
          /\ lastOp' = [Op("resolveSecond") EXCEPT !.resp = resp]
     ELSE /\ Commit(St)
          /\ lastOp' = Op("ignored")
  /\ UNCHANGED <<user, voterId, pc, route, navState, req1, refreshPending,
                 refreshIssued>>

\* The refresh button is rendered in the "No candidates available" box.
HandleRefresh ==
  /\ MainView
  /\ ~loading
  /\ Len(candidatesByPosition) = 0
  /\ refreshIssued < MaxRefresh
  /\ refreshIssued' = refreshIssued + 1
  /\ refreshPending' = refreshPending + 1
  /\ Commit([St EXCEPT !.loading = TRUE])
  /\ lastOp' = Op("handleRefresh")
  /\ UNCHANGED <<user, voterId, pc, route, navState, req1, req2>>

\* The response to a manual refresh arrives.
ResolveRefresh(resp) ==
  /\ refreshPending > 0
  /\ refreshPending' = refreshPending - 1
  /\ IF Mounted
     THEN /\ Commit(RefreshResolved(St, resp))
          /\ lastOp' = [Op("resolveRefresh") EXCEPT !.resp = resp]
     ELSE /\ Commit(St)
          /\ lastOp' = Op("ignored")
  /\ UNCHANGED <<user, voterId, pc, route, navState, req1, req2, refreshIssued>>

\* A click on a displayed candidate card.
HandleVote(candidate, position) ==
  /\ MainView
  /\ \E i \in 1..Len(Displayed(St)) :
       /\ Displayed(St)[i].position = position
       /\ \E j \in 1..Len(Displayed(St)[i].candidates) :
            Displayed(St)[i].candidates[j] = candidate
  /\ Commit(handleVote(St, candidate, position))
  /\ lastOp' = [Op("handleVote") EXCEPT !.position = position,
                                        !.candidate = candidate,
                                        !.prev = PrevOf(St, position)]
  /\ UNCHANGED <<user, voterId, pc, route, navState, req1, req2, refreshPending,
                 refreshIssued>>

\* A click on the "None of the listed" card of a displayed position.
HandleNoneSelected(position) ==
  /\ MainView
  /\ \E i \in 1..Len(Displayed(St)) : Displayed(St)[i].position = position
  /\ Commit(handleNoneSelected(St, position))
  /\ lastOp' = [Op("handleNoneSelected") EXCEPT !.position = position,
                                                !.prev = PrevOf(St, position)]
  /\ UNCHANGED <<user, voterId, pc, route, navState, req1, req2, refreshPending,
                 refreshIssued>>

\* A click on "Review & Confirm Selections".
HandleConfirmVote ==
  /\ MainView
  /\ LET outcome == ConfirmOutcome(St)
     IN  /\ route' = IF outcome.navigates THEN "/confirm-vote" ELSE route
         /\ navState' = IF outcome.navigates THEN outcome.state ELSE navState
         /\ Commit(outcome.after)
  /\ lastOp' = Op("handleConfirmVote")
  /\ UNCHANGED <<user, voterId, pc, req1, req2, refreshPending, refreshIssued>>

\* Typing in the search box, or its clear button.
SetSearchTerm(term) ==
  /\ MainView
  /\ term # searchTerm
  /\ Commit([St EXCEPT !.searchTerm = term])
  /\ lastOp' = Op("setSearchTerm")
  /\ UNCHANGED <<user, voterId, pc, route, navState, req1, req2, refreshPending,
                 refreshIssued>>

\* The "Go to Home" button of the "Voter ID Required" view.
GoHome ==
  /\ Mounted /\ user /\ ~voterId
  /\ route' = "/"
  /\ Commit(St)
  /\ lastOp' = Op("goHome")
  /\ UNCHANGED <<user, voterId, pc, navState, req1, req2, refreshPending,
                 refreshIssued>>

AllCandidates == {Ann, Bob, Cy, Nan, Eve}

AllPositions == {Pres, Sec}

Next ==
  \/ Mount
  \/ \E resp \in Responses : ResolveFirst(resp)
  \/ \E resp \in Responses : ResolveSecond(resp)
  \/ HandleRefresh
  \/ \E resp \in Responses : ResolveRefresh(resp)
  \/ \E c \in AllCandidates, p \in AllPositions : HandleVote(c, p)
  \/ \E p \in AllPositions : HandleNoneSelected(p)
  \/ HandleConfirmVote
  \/ \E term \in SearchTerms : SetSearchTerm(term)
  \/ GoHome

Spec == Init /\ [][Next]_vars

\* ------------------------------------------------- log viewer: the filter
\* The search predicate of the filter effect; term is already lower-cased.
MatchesSearch(log, term) ==
  \/ (Len(log.user.username) > 0 /\ includes(toLowerCase(log.user.username), term))
  \/ (Len(log.user.fullName) > 0 /\ includes(toLowerCase(log.user.fullName), term))
  \/ includes(toLowerCase(log.action), term)
  \/ includes(toLowerCase(log.entity), term)
  \/ includes(toLowerCase(log.details), term)

\* new Date("YYYY-MM-DD"): a date-only string is midnight UTC of that day.
ParseDate(value) == At(value[1], 0)

\* toDate.setHours(23, 59, 59): the last tick of the LOCAL day the instant
\* falls on, for a browser `offset` ticks ahead of UTC.
EndOfDay(instant, offset) ==
  ((instant + offset) \div TicksPerDay) * TicksPerDay + (TicksPerDay - 1) - offset

\* A sort with the comparator's operands swapped (oldest first).
RECURSIVE SortNewestFirst_Ascending(_)
SortNewestFirst_Ascending(list) ==
  IF Len(list) <= 1 THEN list
  ELSE LET rest == SortNewestFirst_Ascending(Tail(list))
           x == Head(list)
           k == Cardinality({i \in 1..Len(rest) : rest[i].timestamp < x.timestamp})
       IN  SubSeq(rest, 1, k) \o <<x>> \o SubSeq(rest, k + 1, Len(rest))

\* filtered.sort((a, b) => b.timestamp - a.timestamp): a stable sort, so
\* entries of equal timestamp keep their order.
RECURSIVE SortNewestFirst(_)
SortNewestFirst(list) ==
  IF Len(list) <= 1 THEN list
  ELSE LET rest == SortNewestFirst(Tail(list))
           x == Head(list)
           k == Cardinality({i \in 1..Len(rest) : rest[i].timestamp > x.timestamp})
       IN  SubSeq(rest, 1, k) \o <<x>> \o SubSeq(rest, k + 1, Len(rest))

\* A search step that compares the fields without lower-casing them.
SearchStep_CaseSensitive(list, term) ==
  IF Len(term) > 0
  THEN LET Match(log) ==
             \/ (Len(log.user.username) > 0 /\ includes(log.user.username, term))
             \/ (Len(log.user.fullName) > 0 /\ includes(log.user.fullName, term))
             \/ includes(log.action, term)
             \/ includes(log.entity, term)
             \/ includes(log.details, term)
       IN  SelectSeq(list, Match)
  ELSE list

\* if (searchTerm) filtered = filtered.filter(...)
SearchStep(list, term) ==
  IF Len(term) > 0
  THEN LET Match(log) == MatchesSearch(log, toLowerCase(term))
       IN  SelectSeq(list, Match)
  ELSE list

\* The structured filters, in source order.
StructuredStep(list, f, offset) ==
  LET ByUser(log)   == log.user.username = f["user"] \/ log.user.fullName = f["user"]
      ByAction(log) == log.action = f["action"]
      ByEntity(log) == log.entity = f["entity"]
      ByFrom(log)   == log.timestamp >= ParseDate(f["fromDate"])
      ByTo(log)     == log.timestamp <= EndOfDay(ParseDate(f["toDate"]), offset)
      l1 == IF Len(f["user"]) > 0 THEN SelectSeq(list, ByUser) ELSE list
      l2 == IF Len(f["action"]) > 0 THEN SelectSeq(l1, ByAction) ELSE l1
      l3 == IF Len(f["entity"]) > 0 THEN SelectSeq(l2, ByEntity) ELSE l2
      l4 == IF Len(f["fromDate"]) > 0 THEN SelectSeq(l3, ByFrom) ELSE l3
  IN  IF Len(f["toDate"]) > 0 THEN SelectSeq(l4, ByTo) ELSE l4

\* A filter effect that narrows the list on display instead of the full list.
FilterEffect_Destructive(s, offset) ==
  IF Len(s.logs) = 0 THEN s
  ELSE [s EXCEPT !.filteredLogs =
          SortNewestFirst(
            StructuredStep(SearchStep(s.filteredLogs, s.searchTerm), s.filters, offset))]

\* useEffect(..., [logs, searchTerm, filters])
FilterEffect(s, offset) ==
  IF Len(s.logs) = 0 THEN s
  ELSE [s EXCEPT !.filteredLogs =
          SortNewestFirst(
            StructuredStep(SearchStep(s.logs, s.searchTerm), s.filters, offset))]

\* log.user.fullName || log.user.username
DisplayName(u) == IF Len(u.fullName) > 0 THEN u.fullName ELSE u.username

\* Array.prototype.indexOf-style de-duplication, in order.
RECURSIVE Unique(_)
Unique(list) ==
  IF Len(list) = 0 THEN <<>>
  ELSE LET init == Unique(SubSeq(list, 1, Len(list) - 1))
           x == list[Len(list)]
       IN  IF \E i \in 1..Len(init) : init[i] = x THEN init ELSE Append(init, x)

getUniqueUsers(s) ==
  LET HasUser(log) == log.user.present
      withUser == SelectSeq(s.logs, HasUser)
      names == [i \in 1..Len(withUser) |-> DisplayName(withUser[i].user)]
      Named(v) == Len(v) > 0
  IN  Unique(SelectSeq(names, Named))

getUniqueActions(s) == Unique([i \in 1..Len(s.logs) |-> s.logs[i].action])

getUniqueEntities(s) == Unique([i \in 1..Len(s.logs) |-> s.logs[i].entity])

Range(list) == {list[i] : i \in 1..Len(list)}

\* The values the control of filter `name` offers.
FilterOptions(s, name) ==
  CASE name = "user"   -> Range(getUniqueUsers(s)) \cup {<<>>}
    [] name = "action" -> Range(getUniqueActions(s)) \cup {<<>>}
    [] name = "entity" -> Range(getUniqueEntities(s)) \cup {<<>>}
    [] OTHER           -> DateValues

handleFilterChange(s, name, value) ==
  [s EXCEPT !.filters = [@ EXCEPT ![name] = value]]

handleClearFilters(s) ==
  [s EXCEPT !.filters = NoFilters, !.searchTerm = <<>>]

\* Object.values(filters).some(Boolean) || searchTerm
AnyFilterActive(s) ==
  (\E n \in FilterNames : Len(s.filters[n]) > 0) \/ Len(s.searchTerm) > 0

\* ------------------------------------------- log viewer: fetch and clear
\* fetchLogs' own guard: if (!canViewLogs) return
fetchLogsRuns == canViewLogs

\* A mount effect and a fetchLogs that do not check the permission.
MountEffectFetches_Unchecked == TRUE

\* useEffect(() => { if (canViewLogs) fetchLogs() }, [canViewLogs])
MountEffectFetches == canViewLogs /\ fetchLogsRuns

\* fetchLogs up to the await.
FetchLogsStarted(s) == [s EXCEPT !.isLoading = TRUE, !.error = Null]

\* fetchLogs after the await.
FetchLogsResolved(s, resp) ==
  IF resp.kind = "ok"
  THEN [s EXCEPT !.logs = resp.data, !.filteredLogs = resp.data,
                 !.isLoading = FALSE]
  ELSE IF resp.kind = "status"
       THEN [s EXCEPT !.error = "Failed to fetch logs: 500", !.isLoading = FALSE]
       ELSE [s EXCEPT !.error = "Failed to fetch", !.isLoading = FALSE]

\* handleClearLogs: window.confirm is shown only past the permission check.
handleClearLogsAsks(canDelete) == canDelete

\* A handleClearLogs without the permission check.
handleClearLogsIssues_Unchecked(canDelete, answer) == answer

\* A handleClearLogs that ignores the answer to window.confirm.
handleClearLogsIssues_IgnoresAnswer(canDelete, answer) == canDelete

\* handleClearLogs: the DELETE request is sent when the permission check
\* and the confirmation both pass.
handleClearLogsIssues(canDelete, answer) == canDelete /\ answer

\* handleClearLogs up to the await.
ClearLogsStarted(s) == [s EXCEPT !.isLoading = TRUE]

\* A catch block that also empties the lists.
ClearLogsResolved_ClearsOnFailure(s, resp) ==
  [s EXCEPT !.logs = <<>>, !.filteredLogs = <<>>,
            !.notification =
               IF resp.kind = "ok"
               THEN [type |-> "success",
                     message |-> "All activity logs have been cleared successfully"]
               ELSE [type |-> "error", message |-> "Failed to clear logs: 500"],
            !.isLoading = FALSE]

\* handleClearLogs after the await.
ClearLogsResolved(s, resp) ==
  IF resp.kind = "ok"
  THEN [s EXCEPT !.logs = <<>>, !.filteredLogs = <<>>,
                 !.notification =
                    [type |-> "success",
                     message |-> "All activity logs have been cleared successfully"],
                 !.isLoading = FALSE]
  ELSE [s EXCEPT !.notification =
                    [type |-> "error",
                     message |-> IF resp.kind = "status"
                                 THEN "Failed to clear logs: 500"
                                 ELSE "Failed to fetch"],
                 !.isLoading = FALSE]

\* ------------------------------------------------- log viewer: CSV export
Digits == <<"0", "1", "2", "3", "4", "5", "6", "7", "8", "9">>

\* new Date(timestamp).toLocaleString(): the local day and tick of the
\* instant; the rendering holds no double quote and no line break.
formatTimestamp(timestamp, offset) ==
  LET local == timestamp + offset
  IN  <<Digits[(local \div TicksPerDay) + 1], ":", Digits[(local % TicksPerDay) + 1]>>

CsvHeader ==
  <<"T", "i", "m", "e", ",", "U", "s", "e", "r", ",", "R", "o", "l", "e",
    ",", "A", "c", "t", "i", "o", "n", ",", "E", "n", "t", "i", "t", "y",
    ",", "D", "e", "t", "a", "i", "l", "s", ",", "I", "P", " ", "A", "d",
    "d", "r", "e", "s", "s", "\n">>

\* An escape that leaves the quotes as they are.
EscapeQuotes_None(s) == s

\* log.details.replace(/"/g, '""')
RECURSIVE EscapeQuotes(_)
EscapeQuotes(s) ==
  IF Len(s) = 0 THEN <<>>
  ELSE (IF Head(s) = "\"" THEN <<"\"", "\"">> ELSE <<Head(s)>>)
         \o EscapeQuotes(Tail(s))

\* One row of the CSV: `"time","user","role","action","entity","details","ip"\n`
CsvRow(log, offset) ==
  LET userName == IF log.user.present THEN DisplayName(log.user)
                  ELSE <<"U", "n", "k", "n", "o", "w", "n">>
      role == IF log.user.present /\ Len(log.user.role) > 0 THEN log.user.role
              ELSE <<>>
      sep == <<"\"", ",", "\"">>
  IN  <<"\"">> \o formatTimestamp(log.timestamp, offset) \o sep \o userName
        \o sep \o role \o sep \o log.action \o sep \o log.entity \o sep
        \o EscapeQuotes(log.details) \o sep \o log.ipAddress \o <<"\"", "\n">>

\* An export of the full list instead of the list on display.
handleExport_AllLogs(s, offset) ==
  LET RECURSIVE Rows(_)
      Rows(list) == IF Len(list) = 0 THEN <<>>
                    ELSE CsvRow(Head(list), offset) \o Rows(Tail(list))
  IN  CsvHeader \o Rows(s.logs)

\* handleExport: csvContent, the text of the downloaded file.
handleExport(s, offset) ==
  LET RECURSIVE Rows(_)
      Rows(list) == IF Len(list) = 0 THEN <<>>
                    ELSE CsvRow(Head(list), offset) \o Rows(Tail(list))
  IN  CsvHeader \o Rows(s.filteredLogs)

\* One <tr> of the printed table, cell by cell.
PrintRow(log, offset) ==
  LET userName == IF log.user.present THEN DisplayName(log.user)
                  ELSE <<"U", "n", "k", "n", "o", "w", "n">>
      role == IF log.user.present /\ Len(log.user.role) > 0
              THEN <<"(">> \o log.user.role \o <<")">>
              ELSE <<>>
  IN  [time    |-> formatTimestamp(log.timestamp, offset),
       user    |-> userName \o <<" ">> \o role,
       action  |-> log.action,
       entity  |-> log.entity,
       details |-> log.details,
       ip      |-> log.ipAddress]

\* handlePrint: the document written into the new window, or nothing when
\* the pop-up is blocked (window.open returns null).
handlePrint(s, offset, popup) ==
  IF ~popup THEN NoDocument
  ELSE [opened  |-> TRUE,
        showing |-> <<Len(s.filteredLogs), Len(s.logs)>>,
        rows    |-> [i \in 1..Len(s.filteredLogs) |-> PrintRow(s.filteredLogs[i], offset)]]

\* ------------------------------------------------------ log viewer: actions
\* Every state update is followed by a render and by the filter effect.
LogsCommit(s) ==
  LET u == FilterEffect(s, tz)
  IN  /\ logs' = u.logs
      /\ filteredLogs' = u.filteredLogs
      /\ logSearchTerm' = u.searchTerm
      /\ isLoading' = u.isLoading
      /\ logError' = u.error
      /\ notification' = u.notification
      /\ filters' = u.filters
      /\ showFilters' = u.showFilters
      /\ UNCHANGED candVars

\* The main view is rendered (not the "Access Restricted" box).
LogsView == logPc = "mounted" /\ canViewLogs

\* The ballot workflow, not rendered: the state the log viewer's behaviours
\* leave it in.
CandidatesParked ==
  /\ user = FALSE
  /\ voterId = FALSE
  /\ pc = "constructed"
  /\ route = "/election-manager"
  /\ navState = NoNavState
  /\ candidatesByPosition = InitialState.candidatesByPosition
  /\ positions = InitialState.positions
  /\ selectedCandidateIds = InitialState.selectedCandidateIds
  /\ noneSelected = InitialState.noneSelected
  /\ error = InitialState.error
  /\ unselectedPositions = InitialState.unselectedPositions
  /\ loading = InitialState.loading
  /\ searchTerm = InitialState.searchTerm
  /\ req1 = "none"
  /\ req2 = "none"
  /\ refreshPending = 0
  /\ refreshIssued = 0
  /\ lastOp = Op("construct")

LogsInit ==
  /\ canViewLogs \in BOOLEAN
  /\ canDeleteLogs \in BOOLEAN
  /\ tz \in TimeZones
  /\ logPc = "constructed"
  /\ logs = InitialLogState.logs
  /\ filteredLogs = InitialLogState.filteredLogs
  /\ logSearchTerm = InitialLogState.searchTerm
  /\ isLoading = InitialLogState.isLoading
  /\ logError = InitialLogState.error
  /\ notification = InitialLogState.notification
  /\ filters = InitialLogState.filters
  /\ showFilters = InitialLogState.showFilters
  /\ fetchReq = "none"
  /\ clearReqs = <<>>
  /\ clearIssued = 0
  /\ timers = 0
  /\ logOp = LogOpOf("construct")
  /\ CandidatesParked

\* The effects of the first commit.
LogsMount ==
  /\ logPc = "constructed"
  /\ logPc' = "mounted"
  /\ fetchReq' = IF MountEffectFetches THEN "pending" ELSE fetchReq
  /\ LogsCommit(IF MountEffectFetches THEN FetchLogsStarted(LogSt) ELSE LogSt)
  /\ logOp' = LogOpOf("mount")
  /\ UNCHANGED <<canViewLogs, canDeleteLogs, tz, clearReqs, clearIssued, timers>>

\* The response to GET /api/logs arrives.
ResolveFetchLogs(resp) ==
  /\ fetchReq = "pending"
  /\ fetchReq' = "done"
  /\ LogsCommit(FetchLogsResolved(LogSt, resp))
  /\ logOp' = [LogOpOf("resolveFetch") EXCEPT !.resp = resp]
  /\ UNCHANGED <<canViewLogs, canDeleteLogs, tz, logPc, clearReqs, clearIssued,
                 timers>>

\* Typing in the search box, or the clear button of the search chip.
SetLogSearchTerm(term) ==
  /\ LogsView
  /\ term # logSearchTerm
  /\ LogsCommit([LogSt EXCEPT !.searchTerm = term])
  /\ logOp' = LogOpOf("setSearchTerm")
  /\ UNCHANGED <<canViewLogs, canDeleteLogs, tz, logPc, fetchReq, clearReqs,
                 clearIssued, timers>>

\* "Show Filters": setShowFilters(!showFilters) on the hidden panel.  Hiding
\* it again only takes the inputs away, and is left out.
ToggleFilters ==
  /\ LogsView
  /\ ~showFilters
  /\ LogsCommit([LogSt EXCEPT !.showFilters = ~showFilters])
  /\ logOp' = LogOpOf("toggleFilters")
  /\ UNCHANGED <<canViewLogs, canDeleteLogs, tz, logPc, fetchReq, clearReqs,
                 clearIssued, timers>>

\* A select or date input of the filter panel, or the clear button of a chip.
HandleFilterChange(name, value) ==
  /\ LogsView
  /\ value # filters[name]
  /\ \/ (showFilters /\ value \in FilterOptions(LogSt, name))
     \/ Len(value) = 0
  /\ Len(value) > 0 =>
       Cardinality({n \in FilterNames \ {name} : Len(filters[n]) > 0}) < MaxActiveFilters
  /\ LogsCommit(handleFilterChange(LogSt, name, value))
  /\ logOp' = LogOpOf("handleFilterChange")
  /\ UNCHANGED <<canViewLogs, canDeleteLogs, tz, logPc, fetchReq, clearReqs,
                 clearIssued, timers>>

\* "Clear Filters", disabled while nothing is active.
HandleClearFilters ==
  /\ LogsView
  /\ AnyFilterActive(LogSt)
  /\ LogsCommit(handleClearFilters(LogSt))
  /\ logOp' = LogOpOf("handleClearFilters")
  /\ UNCHANGED <<canViewLogs, canDeleteLogs, tz, logPc, fetchReq, clearReqs,
                 clearIssued, timers>>

\* handleClearLogs up to the await.  The handler guards itself, so it is
\* invoked here whether or not the "Clear All Logs" button is rendered;
\* `answer` is what the user answers if window.confirm is shown.
HandleClearLogs(answer) ==
  /\ LogsView
  /\ LET asked  == handleClearLogsAsks(canDeleteLogs)
         issues == handleClearLogsIssues(canDeleteLogs, answer)
     IN  /\ issues => clearIssued < MaxClear
         /\ clearIssued' = IF issues THEN clearIssued + 1 ELSE clearIssued
         /\ clearReqs' =
              IF issues
              THEN Append(clearReqs, logs)
              ELSE clearReqs
         /\ LogsCommit(IF issues THEN ClearLogsStarted(LogSt) ELSE LogSt)
         /\ logOp' = [LogOpOf("handleClearLogs") EXCEPT !.asked = asked,
                                                        !.answer = asked /\ answer]
  /\ UNCHANGED <<canViewLogs, canDeleteLogs, tz, logPc, fetchReq, timers>>

\* The response to the i-th DELETE in flight arrives; the finally block
\* schedules the removal of the notification.
ResolveClearLogs(i, resp) ==
  /\ i \in 1..Len(clearReqs)
  /\ clearReqs' = SubSeq(clearReqs, 1, i - 1) \o SubSeq(clearReqs, i + 1, Len(clearReqs))
  /\ timers' = timers + 1
  /\ LogsCommit(ClearLogsResolved(LogSt, resp))
  /\ logOp' = [LogOpOf("resolveClear") EXCEPT !.resp = resp, !.before = clearReqs[i]]
  /\ UNCHANGED <<canViewLogs, canDeleteLogs, tz, logPc, fetchReq, clearIssued>>

\* A timer callback that leaves the notification on display.
TimerCallback_KeepsNotification(s) == s

\* () => setNotification(null)
TimerCallback(s) == [s EXCEPT !.notification = NoNotification]

\* A timer set by showNotification is due and is taken off the timer queue.
TimerDue == timers > 0 /\ timers' = timers - 1

\* A 3000 ms timer fires.
NotificationTimeout ==
  /\ TimerDue
  /\ LogsCommit(TimerCallback(LogSt))
  /\ logOp' = LogOpOf("notificationTimeout")
  /\ UNCHANGED <<canViewLogs, canDeleteLogs, tz, logPc, fetchReq, clearReqs,
                 clearIssued>>

\* The close button of the notification.
DismissNotification ==
  /\ LogsView
  /\ notification # NoNotification
  /\ LogsCommit([LogSt EXCEPT !.notification = NoNotification])
  /\ logOp' = LogOpOf("dismissNotification")
  /\ UNCHANGED <<canViewLogs, canDeleteLogs, tz, logPc, fetchReq, clearReqs,
                 clearIssued, timers>>

\* "Export": the CSV file handed to the browser for download.
HandleExport ==
  /\ LogsView
  /\ LogsCommit(LogSt)
  /\ logOp' = [LogOpOf("handleExport") EXCEPT !.output = handleExport(LogSt, tz)]
  /\ UNCHANGED <<canViewLogs, canDeleteLogs, tz, logPc, fetchReq, clearReqs,
                 clearIssued, timers>>

\* "Print"; `popup` is whether the browser lets the window open.
HandlePrint(popup) ==
  /\ LogsView
  /\ LogsCommit(LogSt)
  /\ logOp' = [LogOpOf("handlePrint") EXCEPT !.document = handlePrint(LogSt, tz, popup)]
  /\ UNCHANGED <<canViewLogs, canDeleteLogs, tz, logPc, fetchReq, clearReqs,
                 clearIssued, timers>>

\* What the user picks in the filter panel: a day in the two date inputs;
\* a user by full name or by username, an action and an entity in the
\* three selects.
LogFilterValues(name) ==
  CASE name = "user"   -> {<<>>, AnnAdmin.fullName, BoClerk.username}
    [] name = "action" -> {<<>>, LogE1.action}
    [] name = "entity" -> {<<>>, LogE2.entity}
    [] OTHER           -> DateValues

LogsNext ==
  \/ LogsMount
  \/ \E resp \in LogResponses : ResolveFetchLogs(resp)
  \/ \E term \in LogSearchTerms : SetLogSearchTerm(term)
  \/ ToggleFilters
  \/ \E name \in FilterNames :
        \E value \in LogFilterValues(name) : HandleFilterChange(name, value)
  \/ HandleClearFilters
  \/ \E answer \in BOOLEAN : HandleClearLogs(answer)
  \/ \E i \in 1..MaxClear, resp \in ClearResponses : ResolveClearLogs(i, resp)
  \/ NotificationTimeout
  \/ DismissNotification
  \/ HandleExport
  \/ \E popup \in BOOLEAN : HandlePrint(popup)

SpecLogs == LogsInit /\ [][LogsNext]_vars

\* The browser runs every timer that is due: a pending setTimeout callback
\* does not wait on the user or on the network.  NotificationTimeout is the
\* only action that takes a timer off the queue, so a step that changes
\* timers by TimerDue is a NotificationTimeout step.
SpecLogsFair == SpecLogs /\ WF_timers(TimerDue)

\* ------------------------------------------------------------------ claims
\* The position is decided: it has a selected id or an abstention flag set.
Decided(p) ==
  \/ p \in DOMAIN selectedCandidateIds
  \/ (p \in DOMAIN noneSelected /\ noneSelected[p] = TRUE)

BallotKeys == {candidatesByPosition[i].position : i \in 1..Len(candidatesByPosition)}

Confirming == lastOp.op = "handleConfirmVote"

\* C1: handleConfirmVote navigates to the confirmation step if and only if
\* every position of the loaded ballot has a selected candidate id or an
\* abstention flag set to true.
C1_ConfirmIffComplete ==
  Confirming => (route = "/confirm-vote" <=> \A p \in BallotKeys : Decided(p))

\* A two-position ballot confirmed with one selection and one abstention.
C1_Witness ==
  /\ Confirming
  /\ route = "/confirm-vote"
  /\ Cardinality(BallotKeys) = 2
  /\ \E p \in BallotKeys : p \in DOMAIN selectedCandidateIds
  /\ \E p \in BallotKeys : p \notin DOMAIN selectedCandidateIds

\* C2: in every reachable state no position has both a selected candidate id
\* and an abstention flag equal to true.
C2_NeverSelectedAndAbstained ==
  \A p \in DOMAIN selectedCandidateIds :
    ~(p \in DOMAIN noneSelected /\ noneSelected[p] = TRUE)

\* A position abstained after it had a selection, next to a selected one.
C2_Witness ==
  /\ lastOp.op = "handleNoneSelected"
  /\ lastOp.prev = "selected"
  /\ selectedCandidateIds # EmptyMap

\* C3: handleVote(candidate, p) leaves p with that candidate's id selected and
\* p's abstention flag false; handleNoneSelected(p) leaves p's abstention flag
\* true and p without a selected id; whatever p's state was before.
C3_VoteAndAbstainOutcome ==
  /\ lastOp.op = "handleVote" =>
       /\ lastOp.position \in DOMAIN selectedCandidateIds
       /\ selectedCandidateIds[lastOp.position] =
            (IF lastOp.candidate.id \notin {Undefined, ""} THEN lastOp.candidate.id
             ELSE IF lastOp.candidate._id \notin {Undefined, ""}
                  THEN lastOp.candidate._id
             ELSE "")
       /\ lastOp.position \in DOMAIN noneSelected
       /\ noneSelected[lastOp.position] = FALSE
  /\ lastOp.op = "handleNoneSelected" =>
       /\ lastOp.position \in DOMAIN noneSelected
       /\ noneSelected[lastOp.position] = TRUE
       /\ lastOp.position \notin DOMAIN selectedCandidateIds

\* A vote cast for a position that was abstained before.
C3_Witness ==
  /\ lastOp.op = "handleVote"
  /\ lastOp.prev = "abstained"
  /\ lastOp.candidate.id = "a"

FetchResolved ==
  lastOp.op \in {"resolveFirst", "resolveSecond", "resolveRefresh"}

\* C4: after every successful ballot fetch (either mount-time fetch or a
\* manual refresh) the selection map and the abstention map are both empty.
C4_SelectionsResetOnEveryFetch ==
  (FetchResolved /\ lastOp.resp.kind = "ok") =>
    (selectedCandidateIds = EmptyMap /\ noneSelected = EmptyMap)

\* C5: when handleConfirmVote rejects an incomplete ballot, the error message
\* lists exactly the positions of the ballot that have neither a selected
\* candidate nor an abstention, by name and in ballot order.
C5_RejectionListsOpenPositions ==
  (Confirming /\ route # "/confirm-vote") =>
    LET Open(p) == ~Decided(p)
    IN  error = [text   |-> "Please make a selection for each position: ",
                 joined |-> join(SelectSeq(Keys(candidatesByPosition), Open),
                                 <<",", " ">>)]

\* A rejection on a two-position ballot with one position already abstained.
C5_Witness ==
  /\ Confirming
  /\ route # "/confirm-vote"
  /\ Len(candidatesByPosition) = 2
  /\ \E p \in BallotKeys : p \in DOMAIN noneSelected /\ noneSelected[p]
  /\ Len(error.joined) > 0

\* The candidates listed under p whose id equals the id selected for p.
Resolving(p) ==
  IF p \in DOMAIN selectedCandidateIds /\ p \in BallotKeys
  THEN LET e == CHOOSE x \in {candidatesByPosition[i] :
                                i \in 1..Len(candidatesByPosition)} :
                  x.position = p
       IN  {i \in 1..Len(e.candidates) :
              e.candidates[i].id = selectedCandidateIds[p]}
  ELSE {}

\* C6: on a permitted confirmation the payload maps each position with a
\* selected id to the candidate listed under it whose id equals the selected
\* id, omits every position whose id does not resolve, and carries the
\* abstention map unchanged.
C6_PayloadIsResolvedSelection ==
  (Confirming /\ route = "/confirm-vote") =>
    /\ navState.noneSelected = noneSelected
    /\ DOMAIN navState.selectedCandidates =
         {p \in DOMAIN selectedCandidateIds : Resolving(p) # {}}
    /\ \A p \in DOMAIN navState.selectedCandidates :
         LET e == CHOOSE x \in {candidatesByPosition[i] :
                                  i \in 1..Len(candidatesByPosition)} :
                    x.position = p
             first == CHOOSE i \in Resolving(p) : \A j \in Resolving(p) : i <= j
         IN  navState.selectedCandidates[p] = e.candidates[first]

\* A confirmation that keeps one selection and drops one that does not resolve.
C6_Witness ==
  /\ Confirming
  /\ route = "/confirm-vote"
  /\ DOMAIN navState.selectedCandidates # {}
  /\ DOMAIN navState.selectedCandidates # DOMAIN selectedCandidateIds

\* C7: when no voter id is stored, mounting ends with the error 'Please enter
\* your Voter ID to view candidates.' and loading false, and neither mount
\* effect ever issues a request to the ballot endpoint.
C7_NoVoterIdBlocksFetch ==
  (pc = "mounted" /\ ~voterId) =>
    /\ error = [text   |-> "Please enter your Voter ID to view candidates.",
                joined |-> <<>>]
    /\ loading = FALSE
    /\ req1 = "none"
    /\ req2 = "none"

\* The component mounted for a signed-in user without a stored voter id.
C7_Witness == pc = "mounted" /\ ~voterId /\ user /\ route = "/candidates"

\* C8: after any ballot request resolves with an empty mapping, the error is
\* 'No candidates available for your voter group.' and positions is empty.
C8_EmptyBallotReported ==
  (FetchResolved /\ lastOp.resp.kind = "ok" /\ Len(lastOp.resp.data) = 0) =>
    /\ error = [text   |-> "No candidates available for your voter group.",
                joined |-> <<>>]
    /\ positions = <<>>

\* C9: for every ballot request a 404 produces the 404 message, an empty
\* result the empty-result message and any other failure a generic failure
\* message; the 404 is never reported as the generic failure.
C9_FailuresDistinguished ==
  FetchResolved =>
    /\ lastOp.resp.kind = "404" =>
         error.text =
           "No candidates found for your voter group. Please contact the administrator."
    /\ (lastOp.resp.kind = "ok" /\ Len(lastOp.resp.data) = 0) =>
         error.text = "No candidates available for your voter group."
    /\ lastOp.resp.kind = "error" =>
         error.text \in {"Failed to load candidates. Please try again.",
                         "Failed to refresh candidates. Please try again."}

\* C10: changing or clearing the search term leaves the ballot, the positions
\* list, the selection map, the abstention map and the error unchanged, and
\* the outcome of handleConfirmVote is the same for every search term.
C10_SearchIsDisplayOnly ==
  [][/\ lastOp'.op = "setSearchTerm" =>
          UNCHANGED <<candidatesByPosition, positions, selectedCandidateIds,
                      noneSelected, error>>
     /\ \A term \in SearchTerms :
          LET sought == ConfirmOutcome([St EXCEPT !.searchTerm = term])
              blank  == ConfirmOutcome([St EXCEPT !.searchTerm = <<>>])
          IN  /\ sought.navigates = blank.navigates
              /\ sought.state = blank.state
              /\ sought.after.error = blank.after.error]_vars

\* A search that hides part of a ballot on which a selection was made.
C10_Witness ==
  /\ lastOp.op = "setSearchTerm"
  /\ Len(searchTerm) > 0
  /\ selectedCandidateIds # EmptyMap
  /\ filteredCandidates(St) # candidatesByPosition

\* The ballot requests issued so far.
RequestsIssued ==
  (IF req1 = "none" THEN 0 ELSE 1) + (IF req2 = "none" THEN 0 ELSE 1)
    + refreshIssued

\* C11: after a ballot request fails the failure is surfaced as a non-empty
\* error with loading false, and no further ballot request is issued until
\* the voter invokes manual refresh.
C11_FailureSurfacedNoRetry ==
  [][/\ (/\ lastOp'.op \in {"resolveFirst", "resolveSecond", "resolveRefresh"}
         /\ lastOp'.resp.kind \in {"404", "error"}) =>
          (error'.text # "" /\ loading' = FALSE)
     /\ RequestsIssued' >= RequestsIssued
     /\ RequestsIssued' > RequestsIssued =>
          \/ (pc = "constructed" /\ lastOp'.op = "mount")
          \/ lastOp'.op = "handleRefresh"]_vars

\* A failed mount-time fetch, still reported, after which the voter refreshes.
C11_Witness ==
  /\ lastOp.op = "handleRefresh"
  /\ error.text = "Failed to load candidates. Please try again."
  /\ req1 = "done"
  /\ req2 = "done"

\* ------------------------------------------------ claims: the log viewer
\* C12: while the user lacks the view permission no GET for the logs is
\* issued, and logs and filteredLogs stay empty for the whole lifetime of
\* the component.
C12_NoViewNoFetch ==
  ~canViewLogs => (fetchReq = "none" /\ logs = <<>> /\ filteredLogs = <<>>)

C12_Witness == ~canViewLogs /\ logPc = "mounted"

\* C13: handleClearLogs without the delete permission is a no-op: no
\* confirmation is asked, no DELETE is issued, and logs, filteredLogs,
\* notification and isLoading are unchanged.
C13_ClearWithoutPermissionIsNoOp ==
  [][(logOp'.op = "handleClearLogs" /\ ~canDeleteLogs)
       => /\ ~logOp'.asked
          /\ clearIssued' = clearIssued
          /\ clearReqs' = clearReqs
          /\ UNCHANGED <<logs, filteredLogs, notification, isLoading>>]_vars

C13_Witness ==
  logOp.op = "handleClearLogs" /\ ~canDeleteLogs /\ Len(logs) > 0

\* C14: a DELETE is issued only by a handleClearLogs whose confirmation the
\* user accepted; when the user declines, no request is issued and logs,
\* filteredLogs, notification and isLoading are unchanged.
C14_DeleteOnlyAfterConfirmation ==
  [][/\ (clearIssued' # clearIssued \/ Len(clearReqs') > Len(clearReqs))
          => (logOp'.op = "handleClearLogs" /\ logOp'.asked /\ logOp'.answer)
     /\ (logOp'.op = "handleClearLogs" /\ logOp'.asked /\ ~logOp'.answer)
          => /\ clearIssued' = clearIssued
             /\ clearReqs' = clearReqs
             /\ UNCHANGED <<logs, filteredLogs, notification, isLoading>>]_vars

C14_Witness ==
  /\ logOp.op = "handleClearLogs" /\ logOp.asked /\ logOp.answer
  /\ Len(clearReqs) = 1 /\ Len(logs) > 0

\* C15, as stated: after a successful clear logs and filteredLogs are empty
\* and a success notification is set; after a failed one they are exactly
\* what they were before the attempt (logOp.before is logs as it was when
\* the request was sent) and an error notification is set; isLoading ends
\* false.
C15_FailureRestoresStateBeforeAttempt ==
  logOp.op = "resolveClear" =>
    /\ isLoading = FALSE
    /\ logOp.resp.kind = "ok"
         => (logs = <<>> /\ filteredLogs = <<>> /\ notification.type = "success")
    /\ logOp.resp.kind # "ok"
         => /\ logs = logOp.before
            /\ notification.type = "error"

\* C15, amended: a failed clear changes neither list: logs and filteredLogs
\* are what they were when the response arrived, whatever happened to them
\* since the request was sent.
C15_ClearOutcome ==
  [][logOp'.op = "resolveClear" /\ logOp' # logOp
       => /\ isLoading' = FALSE
          /\ logOp'.resp.kind = "ok"
               => /\ logs' = <<>> /\ filteredLogs' = <<>>
                  /\ notification'.type = "success"
          /\ logOp'.resp.kind # "ok"
               => /\ logs' = logs /\ filteredLogs' = filteredLogs
                  /\ notification'.type = "error"]_vars

C15_Witness ==
  /\ logOp.op = "resolveClear" /\ logOp.resp.kind # "ok"
  /\ Len(logs) > 0 /\ notification.type = "error"
  /\ logs # logOp.before

\* The entries of a list, as a set.
Entries(list) == {list[i] : i \in 1..Len(list)}

SameEntries(l1, l2) == Len(l1) = Len(l2) /\ Entries(l1) = Entries(l2)

FilterOps == {"setSearchTerm", "handleFilterChange", "handleClearFilters"}

\* C16: changing a filter or the search term never changes logs, and once
\* all filters and the search term are cleared again filteredLogs holds
\* exactly the entries of logs.
C16_FilteringIsNonDestructive ==
  [][logOp'.op \in FilterOps
       => /\ logs' = logs
          /\ ((\A n \in FilterNames : Len(filters'[n]) = 0) /\ Len(logSearchTerm') = 0)
               => SameEntries(filteredLogs', logs')]_vars

C16_Witness ==
  /\ logOp.op \in {"handleClearFilters", "handleFilterChange"}
  /\ ~AnyFilterActive(LogSt)
  /\ Len(logs) > 1

\* text contains term, compared without regard to case.
ContainsNoCase(text, term) ==
  \E i \in 1..(Len(text) - Len(term) + 1) :
    \A k \in 1..Len(term) : LowerChar(text[i + k - 1]) = LowerChar(term[k])

PassesSearch(log, term) ==
  \/ (log.user.present /\ ContainsNoCase(log.user.username, term))
  \/ (log.user.present /\ ContainsNoCase(log.user.fullName, term))
  \/ ContainsNoCase(log.action, term)
  \/ ContainsNoCase(log.entity, term)
  \/ ContainsNoCase(log.details, term)

NoStructuredFilter == \A n \in FilterNames : Len(filters[n]) = 0

\* C17: with a non-empty search term and no structured filter, filteredLogs
\* holds exactly the entries whose username, fullName, action, entity or
\* details contains the term, compared case-insensitively.
C17_SearchKeepsExactlyMatches ==
  (Len(logSearchTerm) > 0 /\ NoStructuredFilter /\ Len(logs) > 0)
    => Entries(filteredLogs) = {e \in Entries(logs) : PassesSearch(e, logSearchTerm)}

C17_Witness ==
  /\ Len(logSearchTerm) > 0 /\ NoStructuredFilter
  /\ Len(filteredLogs) > 0 /\ Len(filteredLogs) < Len(logs)

\* An entry passes every structured filter that is set.
PassesFilters(log) ==
  /\ Len(filters["user"]) > 0
       => (log.user.present /\ (log.user.username = filters["user"]
                                  \/ log.user.fullName = filters["user"]))
  /\ Len(filters["action"]) > 0 => log.action = filters["action"]
  /\ Len(filters["entity"]) > 0 => log.entity = filters["entity"]
  /\ Len(filters["fromDate"]) > 0 => log.timestamp >= ParseDate(filters["fromDate"])
  /\ Len(filters["toDate"]) > 0
       => log.timestamp <= EndOfDay(ParseDate(filters["toDate"]), tz)

LocalDay(instant, offset) == (instant + offset) \div TicksPerDay

\* C19: with toDate set to day d, an entry is kept if and only if its
\* timestamp is no later than 23:59:59 of day d, so every entry of day d is
\* kept, whatever the time zone offset of the browser.
C19_ToDateKeepsThroughEndOfDay ==
  (Len(filters["toDate"]) > 0 /\ Len(logSearchTerm) = 0 /\ Len(logs) > 0
     /\ \A n \in FilterNames \ {"toDate"} : Len(filters[n]) = 0)
    => \A e \in Entries(logs) :
         e \in Entries(filteredLogs) <=> LocalDay(e.timestamp, tz) <= filters["toDate"][1]

\* The line breaks of a CSV text that end a record: those outside quoted
\* fields, that is with an even number of double quotes before them.
RecordBreaks(text) ==
  {i \in 1..Len(text) :
     text[i] = "\n" /\ Cardinality({k \in 1..(i - 1) : text[k] = "\""}) % 2 = 0}

\* A CSV text cut into records at its record breaks.
CsvRecords(text) ==
  LET breaks == RecordBreaks(text)
      Nth(k) == IF k = 0 THEN 0
                ELSE CHOOSE b \in breaks : Cardinality({x \in breaks : x <= b}) = k
      n == Cardinality(breaks)
      last == Nth(n)
      ended == [k \in 1..n |-> SubSeq(text, Nth(k - 1) + 1, Nth(k) - 1)]
  IN  IF last = Len(text) THEN ended
      ELSE Append(ended, SubSeq(text, last + 1, Len(text)))

\* Inside a quoted field every double quote comes as a pair.
RECURSIVE QuotesPaired(_)
QuotesPaired(field) ==
  IF Len(field) = 0 THEN TRUE
  ELSE IF Head(field) = "\""
       THEN Len(field) >= 2 /\ field[2] = "\"" /\ QuotesPaired(SubSeq(field, 3, Len(field)))
       ELSE QuotesPaired(Tail(field))

\* A quoted field read back: each pair of double quotes is one double quote.
RECURSIVE Unquoted(_)
Unquoted(field) ==
  IF Len(field) = 0 THEN <<>>
  ELSE IF Head(field) = "\"" /\ Len(field) >= 2 /\ field[2] = "\""
       THEN <<"\"">> \o Unquoted(SubSeq(field, 3, Len(field)))
       ELSE <<Head(field)>> \o Unquoted(Tail(field))

\* Record `rec` is the row of entry `log`: the fields before and after the
\* details are the entry's, and the details field reads back as its details.
IsRowOf(rec, log) ==
  LET sep  == <<"\"", ",", "\"">>
      name == IF log.user.present
              THEN (IF Len(log.user.fullName) > 0 THEN log.user.fullName
                    ELSE log.user.username)
              ELSE <<"U", "n", "k", "n", "o", "w", "n">>
      role == IF log.user.present THEN log.user.role ELSE <<>>
      pre  == <<"\"">> \o formatTimestamp(log.timestamp, tz) \o sep \o name \o sep
                \o role \o sep \o log.action \o sep \o log.entity \o sep
      post == sep \o log.ipAddress \o <<"\"">>
      mid  == SubSeq(rec, Len(pre) + 1, Len(rec) - Len(post))
  IN  /\ Len(rec) >= Len(pre) + Len(post)
      /\ SubSeq(rec, 1, Len(pre)) = pre
      /\ SubSeq(rec, Len(rec) - Len(post) + 1, Len(rec)) = post
      /\ QuotesPaired(mid)
      /\ Unquoted(mid) = log.details

\* C20: exporting n filtered entries gives a CSV of exactly n+1 records, the
\* header and one row per entry in filteredLogs order, and every double
\* quote of an entry's details is doubled in its row.
C20_CsvHasOneRowPerEntry ==
  logOp.op = "handleExport" =>
    LET records == CsvRecords(logOp.output)
    IN  /\ Len(records) = Len(filteredLogs) + 1
        /\ records[1] = SubSeq(CsvHeader, 1, Len(CsvHeader) - 1)
        /\ \A i \in 1..Len(filteredLogs) : IsRowOf(records[i + 1], filteredLogs[i])

C20_Witness ==
  /\ logOp.op = "handleExport"
  /\ Len(filteredLogs) = 2 /\ Len(filteredLogs) < Len(logs)
  /\ \E i \in 1..2 : \E k \in 1..Len(filteredLogs[i].details) :
       filteredLogs[i].details[k] = "\""
  /\ \E i \in 1..2 : \E k \in 1..Len(filteredLogs[i].details) :
       filteredLogs[i].details[k] = "\n"

\* C21: CSV export and print render exactly the entries of filteredLogs (not
\* the full logs list), issue no network request, and leave logs,
\* filteredLogs, the filters, the search term and the notification unchanged.
C21_ExportAndPrintArePureProjections ==
  [][logOp'.op \in {"handleExport", "handlePrint"} /\ logOp' # logOp
       => /\ UNCHANGED <<logs, filteredLogs, filters, logSearchTerm, notification>>
          /\ UNCHANGED <<fetchReq, clearReqs, clearIssued>>
          /\ logOp'.op = "handleExport"
               => LET records == CsvRecords(logOp'.output)
                  IN  /\ Len(records) = Len(filteredLogs) + 1
                      /\ \A i \in 1..Len(filteredLogs) :
                           IsRowOf(records[i + 1], filteredLogs[i])
          /\ (logOp'.op = "handlePrint" /\ logOp'.document.opened)
               => LET rows == logOp'.document.rows
                  IN  /\ Len(rows) = Len(filteredLogs)
                      /\ logOp'.document.showing = <<Len(filteredLogs), Len(logs)>>
                      /\ \A i \in 1..Len(filteredLogs) :
                           /\ rows[i].time = formatTimestamp(filteredLogs[i].timestamp, tz)
                           /\ rows[i].action = filteredLogs[i].action
                           /\ rows[i].entity = filteredLogs[i].entity
                           /\ rows[i].details = filteredLogs[i].details
                           /\ rows[i].ip = filteredLogs[i].ipAddress]_vars

C21_Witness ==
  /\ logOp.op = "handlePrint" /\ logOp.document.opened
  /\ Len(logOp.document.rows) > 0
  /\ Len(filteredLogs) < Len(logs)
  /\ notification # NoNotification

\* C23: every notification set by a clear-logs attempt, success or failure,
\* is eventually removed without user action: after each completed attempt
\* the notification eventually becomes null.
C23_NotificationEventuallyRemoved ==
  (logOp.op = "resolveClear") ~> (notification = NoNotification)

C23_Witness ==
  /\ logOp.op = "notificationTimeout"
  /\ notification = NoNotification
  /\ clearIssued > 0 /\ timers = 0

AllResolved == req1 # "pending" /\ req2 # "pending" /\ refreshPending = 0

\* C22: when several ballot requests are in flight at once none is cancelled,
\* and the ballot and positions on display are those of the last successful
\* response to resolve, whatever the order of issue: a successful response
\* installs its own data, and nothing but a successful response changes the
\* ballot or the positions; a pending request stays pending until its own
\* response arrives.
C22_LastSuccessfulResponseWins ==
  [][/\ (FetchResolved /\ lastOp.resp.kind = "ok")' =>
          /\ candidatesByPosition' = lastOp'.resp.data
          /\ positions' = Keys(lastOp'.resp.data)
     /\ (candidatesByPosition' # candidatesByPosition \/ positions' # positions) =>
          (FetchResolved /\ lastOp.resp.kind = "ok")'
     /\ (req1 = "pending" /\ req1' # "pending") =>
          (req1' = "done" /\ lastOp'.op \in {"resolveFirst", "ignored"})
     /\ (req2 = "pending" /\ req2' # "pending") =>
          (req2' = "done" /\ lastOp'.op \in {"resolveSecond", "ignored"})
     /\ refreshPending' < refreshPending =>
          lastOp'.op \in {"resolveRefresh", "ignored"}]_vars

\* The request of the first mount effect resolves last, after a refresh that
\* was issued later, and its ballot replaces the one the refresh installed.
C22_Witness ==
  /\ AllResolved
  /\ refreshIssued > 0
  /\ lastOp.op = "resolveFirst"
  /\ lastOp.resp.kind = "ok"
  /\ candidatesByPosition = lastOp.resp.data
  /\ Len(candidatesByPosition) = 2
  /\ route = "/candidates"

\* C24: on every permitted confirmation each position of the current ballot
\* is represented in the payload handed to the confirmation step, by a chosen
\* candidate object or by an abstention flag equal to true.
C24_PayloadCoversEveryPosition ==
  (Confirming /\ route = "/confirm-vote") =>
    \A p \in BallotKeys :
      \/ p \in DOMAIN navState.selectedCandidates
      \/ (p \in DOMAIN navState.noneSelected /\ navState.noneSelected[p] = TRUE)

\* C25: handleConfirmVote never navigates to the confirmation step while the
\* positions list is empty, be it before any fetch has succeeded, while
\* loading, or after a failed or empty fetch.
C25_NoConfirmationOfEmptyBallot ==
  (Confirming /\ route = "/confirm-vote") => Len(positions) > 0

\* C26: no ballot request is issued while no user is authenticated; mounting
\* the component then only redirects to the home route.
C26_NoUserNoRequest ==
  ~user => (req1 = "none" /\ req2 = "none" /\ refreshPending = 0)

\* C27: whenever a non-empty ballot is on display and every issued request
\* has resolved, the error is neither "No candidates available for your voter
\* group." nor the "Failed to load candidates" message.
C27_NoStaleErrorBesideBallot ==
  (MainView /\ AllResolved /\ Len(candidatesByPosition) > 0) =>
    error \notin {MsgNoCandidates, MsgLoadFailed}

\* C28: every selected candidate id recorded for a position is the id of a
\* candidate listed under that position in the current ballot, and each
\* abstention flag that is true belongs to a position of the current ballot.
C28_SelectionsBelongToCurrentBallot ==
  /\ \A p \in DOMAIN selectedCandidateIds :
       /\ p \in BallotKeys
       /\ \E i \in 1..Len(Lookup(candidatesByPosition, p)) :
            CandidateId(Lookup(candidatesByPosition, p)[i]) = selectedCandidateIds[p]
  /\ \A p \in DOMAIN noneSelected : noneSelected[p] = TRUE => p \in BallotKeys

\* C29: whenever loading is false no ballot request is in flight.
C29_NotLoadingMeansNoRequest ==
  ~loading => AllResolved

\* The maps agree on every position but p: same keys, same values.
SameExcept(m1, m2, p) ==
  /\ (DOMAIN m1) \ {p} = (DOMAIN m2) \ {p}
  /\ \A q \in (DOMAIN m1) \ {p} : m1[q] = m2[q]

\* C30: handleVote and handleNoneSelected for position p leave every other
\* position's selection and abstention flag, the ballot and the positions
\* list unchanged.
C30_VoteAndAbstainTouchOnlyTheirPosition ==
  [][(lastOp'.op \in {"handleVote", "handleNoneSelected"} /\ lastOp' # lastOp) =>
       /\ SameExcept(selectedCandidateIds, selectedCandidateIds', lastOp'.position)
       /\ SameExcept(noneSelected, noneSelected', lastOp'.position)
       /\ UNCHANGED <<candidatesByPosition, positions>>]_vars

\* An abstention for one position while the other position keeps the
\* selection it had.
C30_Witness ==
  /\ lastOp.op = "handleNoneSelected"
  /\ lastOp.position \in DOMAIN noneSelected
  /\ noneSelected[lastOp.position] = TRUE
  /\ \E q \in DOMAIN selectedCandidateIds : q # lastOp.position
  /\ Len(positions) = 2

====
